---------------------------- MODULE Spec2Model ----------------------------
(***************************************************************************)
(* A model of main_monte.py: the run-configuration enumerator              *)
(* (build_run_configs), the template editor (PreFileEditor.edit_pre), the  *)
(* external-tool invokers (run_matlab_pitch, BatchRunner.run), the result  *)
(* harvester (CaseManager.collect_outputs) and the sequential sweep        *)
(* (run_monte, driven by the __main__ block).                              *)
(*                                                                         *)
(* Text is a sequence of one-character strings.  A Python number is a      *)
(* record [k, m, e]: k is "int" or "float" and the value is m / 10^e, with *)
(* e = 0 or m not a multiple of 10.  None is the record PyNone.            *)
(***************************************************************************)
EXTENDS Integers, Sequences, FiniteSets, TLC

VARIABLES
    pitch_array,        \* module global, line 15
    RPM_array,          \* module global, line 21
    mass_flow_array,    \* module global, line 22
    template_pre_path,  \* module global, line 314 ("undefined" when unset)
    cfgs,               \* module global, line 308
    pc,                 \* position of the program
    i,                  \* run_monte's loop index, line 264
    m_run,              \* run_monte's local, line 271
    batch_run,          \* run_monte's local, line 282
    pressure_ratio,     \* collect_outputs' local, line 180
    pre_files,          \* the .pre files: path -> text
    results_root,       \* the archive directory: file name -> content
    csv,                \* results.csv: NoFile or File(rows)
    scratch,            \* temp_results_folder: artifact name -> content
    matlab_log,         \* matlab_workdir/matlab.log
    exc,                \* the exception that ended the program, or NoExc
    hist,               \* the steps performed so far, oldest first
    pre,                \* collect_outputs: the files as they were at its call
    call,               \* edit_pre: the arguments and the files of its last call
    csv0                \* results.csv as it was when the program started

vars == <<pitch_array, RPM_array, mass_flow_array, template_pre_path, cfgs, pc,
          i, m_run, batch_run, pressure_ratio, pre_files, results_root, csv,
          scratch, matlab_log, exc, hist, pre, call, csv0>>

---------------------------------------------------------------------------
(* Bounds of the model. *)

\* build_run_configs alone: the longest pitch list and the longest paired list
MaxPitchLen == 2
MaxPairLen == 2
\* the sweep: the longest (speed, mass_flow) lists
MaxSweepPairs == 1
\* edit_pre alone: the calls in a row
MaxRenderCalls == 2

---------------------------------------------------------------------------
(* Text and numbers. *)

Min(a, b) == IF a < b THEN a ELSE b

Abs(n) == IF n < 0 THEN -n ELSE n

RECURSIVE Pow10(_)
Pow10(k) == IF k <= 0 THEN 1 ELSE 10 * Pow10(k - 1)

Digits == <<"0", "1", "2", "3", "4", "5", "6", "7", "8", "9">>

RECURSIVE NatStr(_)
NatStr(n) == IF n < 10 THEN <<Digits[n + 1]>>
             ELSE NatStr(n \div 10) \o <<Digits[(n % 10) + 1]>>

\* str(n) of a Python int
IntStr(n) == IF n < 0 THEN <<"-">> \o NatStr(-n) ELSE NatStr(n)

RECURSIVE Zeros(_)
Zeros(k) == IF k <= 0 THEN <<>> ELSE <<"0">> \o Zeros(k - 1)

RECURSIVE StripZeros(_)
StripZeros(s) == IF Len(s) > 1 /\ s[Len(s)] = "0"
                 THEN StripZeros(SubSeq(s, 1, Len(s) - 1)) ELSE s

\* a >= 0 written with exactly e decimals: a / 10^e
Positional(a, e) ==
    LET ds == NatStr(a)
        padded == Zeros(e + 1 - Len(ds)) \o ds
        n == Len(padded)
    IN  IF e = 0 THEN ds
        ELSE SubSeq(padded, 1, n - e) \o <<".">> \o SubSeq(padded, n - e + 1, n)

PyInt(n) == [k |-> "int", m |-> n, e |-> 0]
PyFloat(mant, dec) == [k |-> "float", m |-> mant, e |-> dec]
PyNone == [k |-> "None", m |-> 0, e |-> 0]

Sign(x) == IF x.m < 0 THEN <<"-">> ELSE <<>>

\* f"{x}" and str(x): an int as it is, a float by its shortest decimal, which
\* is positional for 1e-4 <= |x| < 1e16 (every value of the model) and keeps
\* ".0" on an integral float; None as "None"
PyStr(x) ==
    CASE x.k = "int" -> IntStr(x.m)
      [] x.k = "None" -> <<"N", "o", "n", "e">>
      [] OTHER -> Sign(x) \o (IF x.e = 0 THEN NatStr(Abs(x.m)) \o <<".", "0">>
                               ELSE Positional(Abs(x.m), x.e))

\* a / 10^drop rounded to the nearest integer.  The values of the model have
\* no tie (a remainder of exactly one half), where the binary expansion of
\* the double decides.
RoundDiv(a, drop) ==
    IF drop <= 0 THEN a * Pow10(-drop)
    ELSE LET q == a \div Pow10(drop)
             r == a % Pow10(drop)
         IN  IF 2 * r > Pow10(drop) THEN q + 1 ELSE q

\* f"{x:.4f}": fixed point, four decimals
Fmt4f(x) == Sign(x) \o Positional(RoundDiv(Abs(x.m), x.e - 4), 4)

\* f"{x:g}": six significant digits, trailing zeros removed, the exponent
\* form when the decimal exponent is < -4 or >= 6
FmtG(x) ==
    IF x.m = 0 THEN <<"0">>
    ELSE LET a == Abs(x.m)
             D == Len(NatStr(a))
             r == RoundDiv(a, D - 6)
             carry == r >= Pow10(6)
             sig == IF carry THEN Pow10(5) ELSE r
             X == (D - 1 - x.e) + (IF carry THEN 1 ELSE 0)
             s == StripZeros(NatStr(sig))
             L == Len(s)
             frac(t) == IF t = <<>> THEN <<>> ELSE <<".">> \o t
             body ==
                 IF X >= 6 \/ X < -4
                 THEN <<s[1]>> \o frac(SubSeq(s, 2, L))
                      \o <<"e", (IF X < 0 THEN "-" ELSE "+")>>
                      \o (IF Abs(X) < 10 THEN <<"0">> ELSE <<>>) \o NatStr(Abs(X))
                 ELSE IF X >= 0
                 THEN (IF L >= X + 1 THEN SubSeq(s, 1, X + 1)
                                     ELSE s \o Zeros(X + 1 - L))
                      \o frac(SubSeq(s, X + 2, L))
                 ELSE <<"0", ".">> \o Zeros(-X - 1) \o s
         IN  Sign(x) \o body

\* str.replace(old, new): the occurrences of old, left to right and not
\* overlapping
RECURSIVE Replace(_, _, _)
Replace(text, old, new) ==
    IF Len(text) < Len(old) \/ old = <<>> THEN text
    ELSE IF SubSeq(text, 1, Len(old)) = old
    THEN new \o Replace(SubSeq(text, Len(old) + 1, Len(text)), old, new)
    ELSE <<text[1]>> \o Replace(SubSeq(text, 2, Len(text)), old, new)

\* old in text
RECURSIVE Contains(_, _)
Contains(text, old) ==
    IF Len(text) < Len(old) THEN FALSE
    ELSE SubSeq(text, 1, Len(old)) = old \/ Contains(SubSeq(text, 2, Len(text)), old)

\* the sequences over S of length at most n
RECURSIVE SeqsUpTo(_, _)
SeqsUpTo(S, n) ==
    IF n = 0 THEN {<<>>}
    ELSE LET shorter == SeqsUpTo(S, n - 1)
         IN  shorter \cup {Append(s, x) : s \in shorter, x \in S}

---------------------------------------------------------------------------
(* RunConfig and build_run_configs. *)

RunConfig(pitch, rpm, mdot, id) ==
    [pitch_deg |-> pitch, rpm |-> rpm, mass_flow |-> mdot, run_id |-> id]

\* run_id without the speed
run_id_no_rpm(pitch, rpm, mdot) ==
    Replace(<<"p">> \o FmtG(pitch) \o <<"_", "m", "d", "o", "t">> \o Fmt4f(mdot),
            <<".">>, <<"p">>)

\* line 245
run_id(pitch, rpm, mdot) ==
    Replace(<<"p">> \o FmtG(pitch) \o <<"_", "r", "p", "m">> \o IntStr(rpm)
            \o <<"_", "m", "d", "o", "t">> \o Fmt4f(mdot),
            <<".">>, <<"p">>)

\* LengthMismatch without the test: zip drops the extra entries
LengthMismatch_never(rpms, mdots) == FALSE

\* line 239
LengthMismatch(rpms, mdots) == Len(mdots) # Len(rpms)

\* ConfigList with its loops exchanged: the pairs in the outer loop, pitch in
\* the inner one
ConfigList_pairs_outer(pitches, rpms, mdots) ==
    LET n == Min(Len(rpms), Len(mdots))
        np == Len(pitches)
    IN  [q \in 1..(np * n) |->
            LET p == pitches[((q - 1) % np) + 1]
                j == ((q - 1) \div np) + 1
            IN  RunConfig(p, rpms[j], mdots[j], run_id(p, rpms[j], mdots[j]))]

\* lines 242-247: pitch in the outer loop, zip(rpm_array, mass_flow_array) in
\* the inner one; zip stops at the shorter list
ConfigList(pitches, rpms, mdots) ==
    LET n == Min(Len(rpms), Len(mdots))
    IN  [q \in 1..(Len(pitches) * n) |->
            LET p == pitches[((q - 1) \div n) + 1]
                j == ((q - 1) % n) + 1
            IN  RunConfig(p, rpms[j], mdots[j], run_id(p, rpms[j], mdots[j]))]

\* line 308 of __main__ with lines 232-247
build_run_configs(pitches, rpms, mdots) ==
    IF LengthMismatch(rpms, mdots)
    THEN [err |-> "ValueError", cfgs |-> <<>>]
    ELSE [err |-> "", cfgs |-> ConfigList(pitches, rpms, mdots)]

---------------------------------------------------------------------------
(* PreFileEditor.edit_pre. *)

TokPitch == <<"_", "_", "P", "I", "T", "C", "H", "_", "D", "E", "G", "_", "_">>
TokRpm == <<"_", "_", "R", "P", "M", "_", "_">>
TokMassFlow == <<"_", "_", "M", "A", "S", "S", "_", "F", "L", "O", "W", "_", "_">>

\* lines 48-52
RenderText(text, cfg) ==
    Replace(Replace(Replace(text, TokPitch, PyStr(cfg.pitch_deg)),
                    TokRpm, IntStr(cfg.rpm)),
            TokMassFlow, PyStr(cfg.mass_flow))

\* the file edit_pre reads, line 47: the module global template_pre_path,
\* whatever its parameter template_path is
TemplateRead(template_path, g_template_pre_path) == g_template_pre_path

\* edit_pre writing its text back to the file it read
edit_pre_in_place(template_path, output_pre_path, cfg, fs, g_template_pre_path) ==
    LET src == TemplateRead(template_path, g_template_pre_path)
    IN  IF src = "undefined" THEN [err |-> "NameError", fs |-> fs]
        ELSE IF src \notin DOMAIN fs THEN [err |-> "FileNotFoundError", fs |-> fs]
        ELSE [err |-> "",
              fs |-> [x \in DOMAIN fs |->
                        IF x = src THEN RenderText(fs[src], cfg) ELSE fs[x]]]

\* lines 44-53: fs is the .pre files before the call; the result is the
\* exception raised ("" when none) and the files after it
edit_pre(template_path, output_pre_path, cfg, fs, g_template_pre_path) ==
    LET src == TemplateRead(template_path, g_template_pre_path)
    IN  IF src = "undefined" THEN [err |-> "NameError", fs |-> fs]
        ELSE IF src \notin DOMAIN fs THEN [err |-> "FileNotFoundError", fs |-> fs]
        ELSE [err |-> "",
              fs |-> [x \in DOMAIN fs \cup {output_pre_path} |->
                        IF x = output_pre_path THEN RenderText(fs[src], cfg)
                        ELSE fs[x]]]

HasToken(text) ==
    Contains(text, TokPitch) \/ Contains(text, TokRpm) \/ Contains(text, TokMassFlow)

---------------------------------------------------------------------------
(* Files. *)

Put(dir, name, content) ==
    [x \in DOMAIN dir \cup {name} |-> IF x = name THEN content ELSE dir[x]]

Remove(dir, name) == [x \in DOMAIN dir \ {name} |-> dir[x]]

EmptyDir == [x \in {} |-> 0]

\* what a file of the archive or of the scratch workspace holds: the
\* configuration whose run wrote it (0: written before the sweep), the exit
\* code a log reports, the lines of a report
Content(by, rc, text) == [by |-> by, rc |-> rc, text |-> text]

\* dest_txt_path with the extension of dest_out_path
dest_txt_path_out(cfg) == cfg.run_id \o <<".", "o", "u", "t">>

\* dest_out_path with the extension of dest_txt_path
dest_out_path_txt(cfg) == cfg.run_id \o <<".", "t", "x", "t">>

\* lines 117-127
dest_out_path(cfg) == cfg.run_id \o <<".", "o", "u", "t">>
dest_res_path(cfg) == cfg.run_id \o <<".", "r", "e", "s">>
dest_txt_path(cfg) == cfg.run_id \o <<".", "t", "x", "t">>

\* line 281
log_path(cfg) == cfg.run_id \o <<"_", "s", "o", "l", "v", "e", ".", "l", "o", "g">>

\* lines 330-333: temp_results.out, temp_results.res, temp_report.txt, temp_report
ArtifactNames == {"out", "res", "txt", "dir"}

\* results.csv: whether it exists, and its rows
NoFile == [exists |-> FALSE, rows |-> <<>>]
File(rows) == [exists |-> TRUE, rows |-> rows]

\* line 296
Header == << <<"r", "u", "n", "_", "i", "d">>,
             <<"p", "r", "e", "s", "s", "u", "r", "e", "_", "r", "a", "t", "i", "o">> >>

\* make_csv_headers without its exists() test: the file is always rewritten
make_csv_headers_always(file) == File(<<Header>>)

\* lines 292-296
make_csv_headers(file) == IF ~file.exists THEN File(<<Header>>) ELSE file

\* csv.writer's text of a field: None is the empty string
CsvField(x) == IF x = PyNone THEN <<>> ELSE PyStr(x)

\* lines 143-151: open(csv_path, "a") and one writerow
append_pr_to_csv(file, cfg, pr) ==
    File(Append(file.rows, <<cfg.run_id, CsvField(pr)>>))

---------------------------------------------------------------------------
(* CaseManager.read_pr. *)

Marker == [t |-> "marker", v |-> PyNone]
Word == [t |-> "word", v |-> PyNone]
Num(x) == [t |-> "num", v |-> x]

\* "Total Pressure Ratio" in line, line 135
HasMarker(line) == \E n \in 1..Len(line) : line[n].t = "marker"

\* re.search, line 138: the first number of the line, 0 when there is none
FirstNum(line) ==
    LET at == {n \in 1..Len(line) : line[n].t = "num"}
    IN  IF at = {} THEN 0 ELSE CHOOSE n \in at : \A k \in at : n <= k

\* lines 134-141: the first line with the marker decides; with no such line
\* the loop ends and the function returns None
RECURSIVE read_pr(_)
read_pr(text) ==
    IF text = <<>> THEN [err |-> "", value |-> PyNone]
    ELSE IF HasMarker(Head(text))
    THEN IF FirstNum(Head(text)) = 0
         THEN [err |-> "ValueError", value |-> PyNone]
         ELSE [err |-> "", value |-> Head(text)[FirstNum(Head(text))].v]
    ELSE read_pr(Tail(text))

---------------------------------------------------------------------------
(* The external tools and the harvest's file operations. *)

\* the exit codes a child process returns
ExitCodes == {0, 1}

NoLog == [written |-> FALSE, rc |-> 0, by |-> 0]

\* lines 220-227: matlab.log, written whatever the return code
run_matlab_pitch(rc, idx) == [written |-> TRUE, rc |-> rc, by |-> idx]

\* BatchRunner.run writing its log on success only
BatchRunner_run_on_success(dir, path, rc, idx) ==
    IF rc = 0 THEN Put(dir, path, Content(idx, rc, <<>>)) ELSE dir

\* lines 75-89: the log at log_path, written whatever the return code
BatchRunner_run(dir, path, rc, idx) == Put(dir, path, Content(idx, rc, <<>>))

\* the solver run by single_run.bat: it leaves the artifacts of `made` in the
\* scratch workspace, and does not overwrite one that is there (lines 184-186)
SolverWrites(scr, made, report, idx) ==
    [a \in DOMAIN scr \cup made |->
        IF a \in DOMAIN scr THEN scr[a]
        ELSE Content(idx, 0, IF a = "txt" THEN report ELSE <<>>)]

\* MissingArtifact with "and" for "or"
MissingArtifact_both(scr) == "out" \notin DOMAIN scr /\ "res" \notin DOMAIN scr

\* line 165
MissingArtifact(scr) == "out" \notin DOMAIN scr \/ "res" \notin DOMAIN scr

\* copy2 cut short: the destination is created, without the lines of the source
copy2_truncated(dir, name, scr, a) ==
    Put(dir, name, Content(scr[a].by, scr[a].rc, <<>>))

\* shutil.copy2, lines 173-175: the destination is created or overwritten
copy2(dir, name, scr, a) == Put(dir, name, scr[a])

\* lines 187-194: unlink or rmtree, when the artifact exists
unlink(scr, a) == IF a \in DOMAIN scr THEN Remove(scr, a) ELSE scr

\* lines 195-198
AllGone(scr) == DOMAIN scr \cap ArtifactNames = {}

---------------------------------------------------------------------------
(* The inputs of the model. *)

P0 == PyInt(0)
P1 == PyFloat(1, 0)
P1eps == PyFloat(1000001, 6)
P15 == PyFloat(15, 1)
M2368 == PyFloat(2368, 4)
M23684 == PyFloat(23684, 5)
M2711 == PyFloat(2711, 4)

RpmVals == {9549, 10931}

\* the sweep
SweepPitchArrays == {<<>>, <<P0>>, <<P0, P0>>, <<P0, P15>>}
SweepMdotVals == {M2368}

\* build_run_configs alone
BuildPitchVals == {P0, P1, P1eps, P15}
BuildMdotVals == {M2368, M23684, M2711}

\* edit_pre alone
RenderCfgs == {RunConfig(PyInt(4), 12500, PyFloat(31, 2),
                         run_id(PyInt(4), 12500, PyFloat(31, 2))),
               RunConfig(P15, 9549, M2368, run_id(P15, 9549, M2368))}

TemplatePath == "TEMPLATE_base_pre.pre"
OutputPath == "base_pre.pre"
OtherPath == "TESTbase_pre.pre"

SweepTemplate == <<"r", "=">> \o TokRpm \o <<" ", "m", "=">> \o TokMassFlow
                 \o <<" ", "p", "=">> \o TokPitch

\* .pre texts: a token met twice and the tail of a token, no token at all
TwiceTemplate == TokRpm \o <<"R", "P", "M", "_", "_">> \o TokPitch \o TokPitch
                 \o <<"_">> \o TokMassFlow
PlainText == <<"e", "n", "d">>

\* reports the solver may leave: the marker line with its number, no marker
\* line, the marker line without a number
ReportOk == << <<Word, Num(PyFloat(27, 2))>>, <<Marker, Num(PyFloat(19845, 4)), Word>> >>
ReportNoMarker == << <<Word, Num(PyFloat(27, 2))>> >>
ReportNoNumber == << <<Word>>, <<Marker, Word>> >>
Reports == {ReportOk, ReportNoMarker, ReportNoNumber}

\* the artifacts one solver run may leave
SolverOutputs == {{"out", "res", "txt", "dir"}, {"out", "res", "txt"},
                  {"out", "res"}, {"out", "txt", "dir"}, {"res", "txt"}, {}}

\* what an earlier sweep may have left behind
StaleCfg == RunConfig(P0, 9549, M2368, run_id(P0, 9549, M2368))
OldRow == <<StaleCfg.run_id, PyStr(PyFloat(15, 1))>>
StaleArchive ==
    Put(Put(Put(EmptyDir, dest_out_path(StaleCfg), Content(0, 0, <<>>)),
            dest_res_path(StaleCfg), Content(0, 0, <<>>)),
        dest_txt_path(StaleCfg), Content(0, 0, ReportOk))
StaleScratch == [a \in ArtifactNames |->
                    Content(0, 0, IF a = "txt" THEN ReportOk ELSE <<>>)]

---------------------------------------------------------------------------
(* The program: the __main__ block and run_monte. *)

NoExc == [type |-> "none", line |-> 0]
Exc(type, line) == [type |-> type, line |-> line]

\* one entry of hist: a step of configuration c, the exit code it returned,
\* the exception it raised ("" when none)
Ev(c, step, rc, err) == [cfg |-> c, step |-> step, rc |-> rc, err |-> err]

NoPre == [csv |-> NoFile, results_root |-> EmptyDir, scratch |-> EmptyDir]
NoCall == [template_path |-> "", output_pre_path |-> "", cfg |-> StaleCfg,
           before |-> EmptyDir, err |-> ""]

inputs == <<pitch_array, RPM_array, mass_flow_array, csv0>>
locals == <<m_run, batch_run, pressure_ratio>>
disk == <<pre_files, results_root, csv, scratch, matlab_log>>

Idle ==
    /\ template_pre_path = "undefined"
    /\ cfgs = <<>>
    /\ i = 0
    /\ m_run = 0
    /\ batch_run = 0
    /\ pressure_ratio = PyNone
    /\ matlab_log = NoLog
    /\ exc = NoExc
    /\ hist = <<>>
    /\ pre = NoPre
    /\ call = NoCall

\* the program is started: the arrays of lines 15-22 as the user set them,
\* the files an earlier sweep may have left
Init ==
    /\ pitch_array \in SweepPitchArrays
    /\ RPM_array \in SeqsUpTo(RpmVals, MaxSweepPairs)
    /\ mass_flow_array \in SeqsUpTo(SweepMdotVals, MaxSweepPairs + 1)
    /\ pc = "build"
    /\ pre_files = [x \in {TemplatePath} |-> SweepTemplate]
    /\ results_root \in {EmptyDir, StaleArchive}
    /\ csv \in {NoFile, File(<<Header>>), File(<<Header, OldRow>>)}
    /\ csv0 = csv
    /\ scratch \in {EmptyDir, StaleScratch}
    /\ Idle

\* an exception nothing catches ends the program
Raise(type, line) ==
    /\ pc' = "aborted"
    /\ exc' = Exc(type, line)

\* line 308
BuildRunConfigs ==
    /\ pc = "build"
    /\ LET r == build_run_configs(pitch_array, RPM_array, mass_flow_array)
       IN  IF r.err # ""
           THEN Raise(r.err, 240) /\ UNCHANGED cfgs
           ELSE pc' = "setup" /\ cfgs' = r.cfgs /\ UNCHANGED exc
    /\ UNCHANGED <<inputs, locals, disk, template_pre_path, i, hist, pre, call>>

\* lines 311-335: the paths, results_root.mkdir, make_csv_headers, CaseManager
MainSetup ==
    /\ pc = "setup"
    /\ template_pre_path' = TemplatePath
    /\ csv' = make_csv_headers(csv)
    /\ pc' = "for"
    /\ UNCHANGED <<inputs, locals, cfgs, i, pre_files, results_root, scratch,
                   matlab_log, exc, hist, pre, call>>

\* ForNext leaving the loop after its first turn
ForNext_once ==
    /\ pc = "for"
    /\ IF i < Len(cfgs) /\ i = 0 THEN i' = i + 1 /\ pc' = "matlab"
                                 ELSE i' = i /\ pc' = "done"
    /\ UNCHANGED <<inputs, locals, disk, template_pre_path, cfgs, exc, hist,
                   pre, call>>

\* line 264: the next configuration, or the end of the sweep
ForNext ==
    /\ pc = "for"
    /\ IF i < Len(cfgs) THEN i' = i + 1 /\ pc' = "matlab"
                        ELSE i' = i /\ pc' = "done"
    /\ UNCHANGED <<inputs, locals, disk, template_pre_path, cfgs, exc, hist,
                   pre, call>>

\* line 271: the geometry tool runs and returns, or cannot be started
RunMatlab ==
    /\ pc = "matlab"
    /\ \/ \E rc \in ExitCodes :
            /\ m_run' = rc
            /\ matlab_log' = run_matlab_pitch(rc, i)
            /\ hist' = Append(hist, Ev(i, "matlab", rc, ""))
            /\ pc' = "matlab_check"
            /\ UNCHANGED exc
       \/ /\ Raise("OSError", 213)
          /\ hist' = Append(hist, Ev(i, "matlab", 0, "OSError"))
          /\ UNCHANGED <<m_run, matlab_log>>
    /\ UNCHANGED <<inputs, batch_run, pressure_ratio, pre_files, results_root,
                   csv, scratch, template_pre_path, cfgs, i, pre, call>>

\* CheckMatlab without its raise: the sweep goes on after a failed geometry run
CheckMatlab_ignored ==
    /\ pc = "matlab_check"
    /\ pc' = "edit_pre"
    /\ UNCHANGED <<inputs, locals, disk, template_pre_path, cfgs, i, hist, pre,
                   call, exc>>

\* lines 272-274
CheckMatlab ==
    /\ pc = "matlab_check"
    /\ IF m_run # 0 THEN Raise("RuntimeError", 273)
                    ELSE pc' = "edit_pre" /\ UNCHANGED exc
    /\ UNCHANGED <<inputs, locals, disk, template_pre_path, cfgs, i, hist, pre,
                   call>>

\* line 277
EditPre ==
    /\ pc = "edit_pre"
    /\ LET r == edit_pre(TemplatePath, OutputPath, cfgs[i], pre_files,
                         template_pre_path)
       IN  /\ pre_files' = r.fs
           /\ call' = [template_path |-> TemplatePath,
                       output_pre_path |-> OutputPath, cfg |-> cfgs[i],
                       before |-> pre_files, err |-> r.err]
           /\ hist' = Append(hist, Ev(i, "edit_pre", 0, r.err))
           /\ IF r.err # "" THEN Raise(r.err, 47)
                            ELSE pc' = "solver" /\ UNCHANGED exc
    /\ UNCHANGED <<inputs, locals, results_root, csv, scratch, matlab_log,
                   template_pre_path, cfgs, i, pre>>

\* lines 281-282: the solver runs and returns, or cannot be started
RunSolver ==
    /\ pc = "solver"
    /\ \/ \E rc \in ExitCodes, made \in SolverOutputs, report \in Reports :
            /\ batch_run' = rc
            /\ scratch' = SolverWrites(scratch, made, report, i)
            /\ results_root' = BatchRunner_run(results_root, log_path(cfgs[i]), rc, i)
            /\ hist' = Append(hist, Ev(i, "solver", rc, ""))
            /\ pc' = "solver_check"
            /\ UNCHANGED exc
       \/ /\ Raise("OSError", 67)
          /\ hist' = Append(hist, Ev(i, "solver", 0, "OSError"))
          /\ UNCHANGED <<batch_run, scratch, results_root>>
    /\ UNCHANGED <<inputs, m_run, pressure_ratio, pre_files, csv, matlab_log,
                   template_pre_path, cfgs, i, pre, call>>

\* CheckSolver without its raise: a failed solver run is harvested
CheckSolver_ignored ==
    /\ pc = "solver_check"
    /\ pc' = "collect"
    /\ UNCHANGED <<inputs, locals, disk, template_pre_path, cfgs, i, hist, pre,
                   call, exc>>

\* lines 283-284
CheckSolver ==
    /\ pc = "solver_check"
    /\ IF batch_run # 0 THEN Raise("RuntimeError", 284)
                        ELSE pc' = "collect" /\ UNCHANGED exc
    /\ UNCHANGED <<inputs, locals, disk, template_pre_path, cfgs, i, hist, pre,
                   call>>

---------------------------------------------------------------------------
(* CaseManager.collect_outputs, called at line 287. *)

\* an exception raised inside collect_outputs
RaiseInCollect(type, line) ==
    /\ Raise(type, line)
    /\ hist' = Append(hist, Ev(i, "raise", 0, type))

\* lines 159-166
CollectCall ==
    /\ pc = "collect"
    /\ pre' = [csv |-> csv, results_root |-> results_root, scratch |-> scratch]
    /\ IF MissingArtifact(scratch)
       THEN /\ Raise("FileNotFoundError", 166)
            /\ hist' = hist \o <<Ev(i, "collect", 0, ""),
                                 Ev(i, "raise", 0, "FileNotFoundError")>>
       ELSE /\ pc' = "copy_out"
            /\ hist' = Append(hist, Ev(i, "collect", 0, ""))
            /\ UNCHANGED exc
    /\ UNCHANGED <<inputs, locals, disk, template_pre_path, cfgs, i, call>>

\* Copy with shutil.move for shutil.copy2: the artifact leaves the scratch
\* workspace when it is archived
Copy_move(at, a, dest, line, next) ==
    /\ pc = at
    /\ IF a \notin DOMAIN scratch
       THEN RaiseInCollect("FileNotFoundError", line)
            /\ UNCHANGED <<results_root, scratch>>
       ELSE /\ results_root' = copy2(results_root, dest, scratch, a)
            /\ scratch' = Remove(scratch, a)
            /\ pc' = next
            /\ UNCHANGED <<exc, hist>>
    /\ UNCHANGED <<inputs, locals, pre_files, csv, matlab_log,
                   template_pre_path, cfgs, i, pre, call>>

\* one shutil.copy2 of lines 173-175
Copy(at, a, dest, line, next) ==
    /\ pc = at
    /\ IF a \notin DOMAIN scratch
       THEN RaiseInCollect("FileNotFoundError", line) /\ UNCHANGED results_root
       ELSE /\ results_root' = copy2(results_root, dest, scratch, a)
            /\ pc' = next
            /\ UNCHANGED <<exc, hist>>
    /\ UNCHANGED <<inputs, locals, pre_files, csv, scratch, matlab_log,
                   template_pre_path, cfgs, i, pre, call>>

\* lines 170, 173
CopyOut == Copy("copy_out", "out", dest_out_path(cfgs[i]), 173, "copy_res")

\* lines 171, 174
CopyRes == Copy("copy_res", "res", dest_res_path(cfgs[i]), 174, "copy_txt")

\* lines 172, 175
CopyTxt == Copy("copy_txt", "txt", dest_txt_path(cfgs[i]), 175, "assert_copied")

\* line 176
AssertCopied ==
    /\ pc = "assert_copied"
    /\ IF {dest_out_path(cfgs[i]), dest_res_path(cfgs[i]), dest_txt_path(cfgs[i])}
            \subseteq DOMAIN results_root
       THEN pc' = "read_pr" /\ UNCHANGED <<exc, hist>>
       ELSE RaiseInCollect("AssertionError", 176)
    /\ UNCHANGED <<inputs, locals, disk, template_pre_path, cfgs, i, pre, call>>

\* ReadPr writing the row of the configuration, without a metric, before it
\* raises
ReadPr_row_first ==
    /\ pc = "read_pr"
    /\ IF "txt" \notin DOMAIN scratch
       THEN /\ RaiseInCollect("FileNotFoundError", 133)
            /\ UNCHANGED <<pressure_ratio, csv>>
       ELSE LET r == read_pr(scratch["txt"].text)
            IN  IF r.err # ""
                THEN /\ RaiseInCollect(r.err, 140)
                     /\ csv' = append_pr_to_csv(csv, cfgs[i], PyNone)
                     /\ UNCHANGED pressure_ratio
                ELSE /\ pressure_ratio' = r.value
                     /\ pc' = "append"
                     /\ UNCHANGED <<exc, hist, csv>>
    /\ UNCHANGED <<inputs, m_run, batch_run, pre_files, results_root, scratch,
                   matlab_log, template_pre_path, cfgs, i, pre, call>>

\* line 180 with lines 129-141
ReadPr ==
    /\ pc = "read_pr"
    /\ IF "txt" \notin DOMAIN scratch
       THEN RaiseInCollect("FileNotFoundError", 133) /\ UNCHANGED pressure_ratio
       ELSE LET r == read_pr(scratch["txt"].text)
            IN  IF r.err # ""
                THEN RaiseInCollect(r.err, 140) /\ UNCHANGED pressure_ratio
                ELSE /\ pressure_ratio' = r.value
                     /\ pc' = "append"
                     /\ UNCHANGED <<exc, hist>>
    /\ UNCHANGED <<inputs, m_run, batch_run, disk, template_pre_path, cfgs, i,
                   pre, call>>

\* line 181 with lines 143-151
AppendCsv ==
    /\ pc = "append"
    /\ csv' = append_pr_to_csv(csv, cfgs[i], pressure_ratio)
    /\ pc' = "cleanup"
    /\ UNCHANGED <<inputs, locals, pre_files, results_root, scratch, matlab_log,
                   template_pre_path, cfgs, i, exc, hist, pre, call>>

\* collect_outputs returning after line 181, without lines 187-198
Cleanup_omitted ==
    /\ pc = "cleanup"
    /\ pc' = "saved"
    /\ hist' = Append(hist, Ev(i, "harvested", 0, ""))
    /\ UNCHANGED <<inputs, locals, disk, template_pre_path, cfgs, i, exc, pre,
                   call>>

\* lines 187-194
Cleanup ==
    /\ pc = "cleanup"
    /\ scratch' = unlink(unlink(unlink(unlink(scratch, "out"), "res"), "txt"), "dir")
    /\ pc' = "assert_gone"
    /\ UNCHANGED <<inputs, locals, pre_files, results_root, csv, matlab_log,
                   template_pre_path, cfgs, i, exc, hist, pre, call>>

\* lines 195-201: the asserts, then the return to line 287
AssertGone ==
    /\ pc = "assert_gone"
    /\ IF AllGone(scratch)
       THEN /\ pc' = "saved"
            /\ hist' = Append(hist, Ev(i, "harvested", 0, ""))
            /\ UNCHANGED exc
       ELSE RaiseInCollect("AssertionError", 195)
    /\ UNCHANGED <<inputs, locals, disk, template_pre_path, cfgs, i, pre, call>>

\* PrintSaved going back to the solver with the same configuration
PrintSaved_again ==
    /\ pc = "saved"
    /\ pc' = "solver"
    /\ UNCHANGED <<inputs, locals, disk, template_pre_path, cfgs, i, exc, hist,
                   pre, call>>

\* line 288, then the next turn of the loop
PrintSaved ==
    /\ pc = "saved"
    /\ pc' = "for"
    /\ UNCHANGED <<inputs, locals, disk, template_pre_path, cfgs, i, exc, hist,
                   pre, call>>

Next ==
    \/ BuildRunConfigs
    \/ MainSetup
    \/ ForNext
    \/ RunMatlab
    \/ CheckMatlab
    \/ EditPre
    \/ RunSolver
    \/ CheckSolver
    \/ CollectCall
    \/ CopyOut
    \/ CopyRes
    \/ CopyTxt
    \/ AssertCopied
    \/ ReadPr
    \/ AppendCsv
    \/ Cleanup
    \/ AssertGone
    \/ PrintSaved

Spec == Init /\ [][Next]_vars

\* the steps the interpreter takes by itself, but for the two below; RunMatlab
\* and RunSolver wait for a child process (subprocess.run, lines 213 and 67)
ProgramStep ==
    \/ MainSetup
    \/ ForNext
    \/ CheckMatlab
    \/ CheckSolver
    \/ CollectCall
    \/ CopyOut
    \/ CopyRes
    \/ CopyTxt
    \/ AssertCopied
    \/ ReadPr
    \/ AppendCsv
    \/ Cleanup
    \/ AssertGone
    \/ PrintSaved

\* the call of build_run_configs (line 308) and the call of edit_pre (line
\* 277) return or raise: the step that leaves "build" is BuildRunConfigs, the
\* one that leaves "edit_pre" is EditPre, and each can be taken wherever the
\* program is at its position
BuildReturns == pc = "build" /\ pc' \in {"setup", "aborted"}
EditPreReturns == pc = "edit_pre" /\ pc' \in {"solver", "aborted"}

\* the program runs in one thread, which nothing suspends: a step of its own
\* that can be taken is taken.  Nothing is assumed of the tools: subprocess.run
\* is called without a timeout and waits as long as the child runs.
SpecFair ==
    /\ Spec
    /\ WF_vars(ProgramStep)
    /\ WF_pc(BuildReturns)
    /\ WF_pc(EditPreReturns)

---------------------------------------------------------------------------
(* build_run_configs alone, on any arrays. *)

InitBuild ==
    /\ pitch_array \in SeqsUpTo(BuildPitchVals, MaxPitchLen)
    /\ RPM_array \in SeqsUpTo(RpmVals, MaxPairLen)
    /\ mass_flow_array \in SeqsUpTo(BuildMdotVals, MaxPairLen)
    /\ pc = "build"
    /\ pre_files = [x \in {TemplatePath} |-> SweepTemplate]
    /\ results_root = EmptyDir
    /\ csv = NoFile
    /\ csv0 = csv
    /\ scratch = EmptyDir
    /\ Idle

SpecBuild == InitBuild /\ [][BuildRunConfigs]_vars

---------------------------------------------------------------------------
(* edit_pre alone, called by any caller: the module global                 *)
(* template_pre_path is whatever the importing program left there.         *)

\* a file that may be absent: no entry when text is <<>>
MaybeFile(path, text) == IF text = <<>> THEN EmptyDir ELSE Put(EmptyDir, path, text)

InitRender ==
    /\ pitch_array = <<>>
    /\ RPM_array = <<>>
    /\ mass_flow_array = <<>>
    /\ pc = "render"
    /\ \E t \in {<<>>, SweepTemplate, TwiceTemplate},
          o \in {<<>>, TwiceTemplate, PlainText},
          w \in {<<>>, PlainText} :
            pre_files = MaybeFile(TemplatePath, t) @@ MaybeFile(OtherPath, o)
                        @@ MaybeFile(OutputPath, w)
    /\ results_root = EmptyDir
    /\ csv = NoFile
    /\ csv0 = csv
    /\ scratch = EmptyDir
    /\ cfgs = <<>>
    /\ i = 0
    /\ m_run = 0
    /\ batch_run = 0
    /\ pressure_ratio = PyNone
    /\ matlab_log = NoLog
    /\ exc = NoExc
    /\ hist = <<>>
    /\ pre = NoPre
    /\ call = NoCall
    /\ template_pre_path \in {"undefined", TemplatePath, OtherPath}

\* one call edit_pre(template_path, output_pre_path, cfg); the caller may name
\* the template as the file to write
RenderCall ==
    /\ pc = "render"
    /\ Len(hist) < MaxRenderCalls
    /\ \E tp \in {TemplatePath, OtherPath}, op \in {OutputPath, TemplatePath},
          cfg \in RenderCfgs :
         LET r == edit_pre(tp, op, cfg, pre_files, template_pre_path)
         IN  /\ pre_files' = r.fs
             /\ call' = [template_path |-> tp, output_pre_path |-> op,
                         cfg |-> cfg, before |-> pre_files, err |-> r.err]
             /\ hist' = Append(hist, Ev(0, "edit_pre", 0, r.err))
             /\ IF r.err # "" THEN Raise(r.err, 47)
                              ELSE pc' = "render" /\ UNCHANGED exc
    /\ UNCHANGED <<inputs, locals, results_root, csv, scratch, matlab_log,
                   template_pre_path, cfgs, i, pre>>

SpecRender == InitRender /\ [][RenderCall]_vars

---------------------------------------------------------------------------
(* The two programs that write .pre files: the sweep, and a caller of      *)
(* edit_pre alone.                                                         *)

InitTemplate == Init \/ InitRender

NextTemplate == Next \/ RenderCall

SpecTemplate == InitTemplate /\ [][NextTemplate]_vars

---------------------------------------------------------------------------
(* The properties. *)

IsPrefix(s, t) == Len(s) <= Len(t) /\ SubSeq(t, 1, Len(s)) = s

\* a step that failed its configuration: a tool that exited non-zero or could
\* not be started, an exception of edit_pre or collect_outputs
Failure(ev) == (ev.step \in {"matlab", "solver"} /\ ev.rc # 0) \/ ev.err # ""

\* the configurations whose collect_outputs returned, in the order it did
Harvested == SelectSeq(hist, LAMBDA ev : ev.step = "harvested")

\* the data rows of results.csv
DataRows == IF csv.rows = <<>> THEN <<>> ELSE Tail(csv.rows)

Stopped == pc \in {"done", "aborted"}

\* collect_outputs was called for the current configuration
CollectCalled == \E n \in 1..Len(hist) : hist[n].cfg = i /\ hist[n].step = "collect"

ArchiveNames(cfg) == {cfg.run_id \o <<".", "o", "u", "t">>,
                      cfg.run_id \o <<".", "r", "e", "s">>,
                      cfg.run_id \o <<".", "t", "x", "t">>}

\* C1: once a configuration has failed (a tool exited non-zero or did not
\* start, or collect_outputs raised), hist holds no step of any later
\* configuration.
C1_FailFast ==
    \A a \in 1..Len(hist) :
        Failure(hist[a]) => \A b \in 1..Len(hist) : hist[b].cfg <= hist[a].cfg

\* the solver of a configuration failed with configurations left in the sweep
C1_Witness ==
    /\ pc = "aborted"
    /\ exc = Exc("RuntimeError", 284)
    /\ i < Len(cfgs)

\* C2: from a CSV that held the header at most, when the sweep has stopped the
\* data rows are the rows of the harvested configurations, which are the
\* configurations 1..h in this order; h is the number of configurations when
\* the sweep ended normally, and k-1 when the solver of configuration k was
\* the first to exit non-zero.
C2_CsvRowsAreHarvested ==
    (Stopped /\ csv0 \in {NoFile, File(<<Header>>)}) =>
        /\ csv.exists => (csv.rows # <<>> /\ Head(csv.rows) = Header)
        /\ Len(DataRows) = Len(Harvested)
        /\ \A n \in 1..Len(Harvested) :
              /\ Harvested[n].cfg = n
              /\ Len(DataRows[n]) = 2
              /\ DataRows[n][1] = cfgs[n].run_id
        /\ pc = "done" => Len(DataRows) = Len(cfgs)
        /\ \A n \in 1..Len(hist) :
              (hist[n].step = "solver" /\ hist[n].rc # 0) =>
                  Len(DataRows) = hist[n].cfg - 1

\* the second solver run failed after the first configuration was harvested
C2_Witness ==
    /\ pc = "aborted"
    /\ exc = Exc("RuntimeError", 284)
    /\ i = 2
    /\ csv0 = NoFile
    /\ Len(DataRows) = 1

\* C3: every step leaves the rows of the CSV a prefix of its rows after the
\* step and never removes the file; make_csv_headers writes the header row
\* when the file does not exist and nothing when it does.
C3_CsvAppendOnly ==
    [][/\ csv.exists => csv'.exists
       /\ IsPrefix(csv.rows, csv'.rows)
       /\ pc = "setup" =>
             IF csv.exists THEN csv' = csv ELSE csv' = File(<<Header>>)]_vars

\* a CSV left by an earlier sweep was appended to
C3_Witness ==
    /\ pc = "done"
    /\ csv0 = File(<<Header, OldRow>>)
    /\ Len(csv.rows) > Len(csv0.rows)
    /\ IsPrefix(csv0.rows, csv.rows)

\* what C4 says of the scratch workspace and of the CSV, and that the archive
\* holds the copies under the run_id
HarvestEffect ==
    LET cfg == cfgs[i]
        out == cfg.run_id \o <<".", "o", "u", "t">>
        res == cfg.run_id \o <<".", "r", "e", "s">>
        txt == cfg.run_id \o <<".", "t", "x", "t">>
    IN  /\ DOMAIN scratch \cap {"out", "res", "txt", "dir"} = {}
        /\ DOMAIN results_root = DOMAIN pre.results_root \cup {out, res, txt}
        /\ Cardinality({out, res, txt}) = 3
        /\ results_root[out] = pre.scratch["out"]
        /\ results_root[res] = pre.scratch["res"]
        /\ results_root[txt] = pre.scratch["txt"]
        /\ \A f \in DOMAIN pre.results_root \ {out, res, txt} :
              results_root[f] = pre.results_root[f]
        /\ csv.exists
        /\ Len(csv.rows) = Len(pre.csv.rows) + 1
        /\ IsPrefix(pre.csv.rows, csv.rows)
        /\ csv.rows[Len(csv.rows)][1] = cfg.run_id

\* C4, as amended: after collect_outputs has returned the scratch workspace
\* holds none of the four artifacts, the archive holds <run_id>.out, .res and
\* .txt with the content of the scratch artifacts and none of its other
\* files (the logs, earlier runs' copies) has changed, and the CSV has one
\* more row, at its end, after the rows it had.  The three files are new
\* files when the archive held none of these names before the call; a file
\* of the same name is overwritten.
C4_HarvestEffect ==
    pc = "saved" =>
        /\ HarvestEffect
        /\ (ArchiveNames(cfgs[i]) \cap DOMAIN pre.results_root = {}) =>
              Cardinality(DOMAIN results_root)
                  = Cardinality(DOMAIN pre.results_root) + 3

\* a harvest of all four artifacts into an archive without these names
C4_Witness ==
    /\ pc = "saved"
    /\ DOMAIN pre.scratch = {"out", "res", "txt", "dir"}
    /\ ArchiveNames(cfgs[i]) \cap DOMAIN pre.results_root = {}
    /\ Len(csv.rows) >= 2

\* C4 as stated: the three archive files are always new files
C4_AsStated ==
    pc = "saved" =>
        /\ HarvestEffect
        /\ ArchiveNames(cfgs[i]) \cap DOMAIN pre.results_root = {}
        /\ Cardinality(DOMAIN results_root)
              = Cardinality(DOMAIN pre.results_root) + 3

\* C5: collect_outputs does not get past read_pr when the report it reads has
\* no line with the marker: no row is appended and it does not return.
C5_NoMarkerFails ==
    (pc \in {"append", "cleanup", "assert_gone", "saved"}
        /\ "txt" \in DOMAIN pre.scratch) =>
        \E n \in 1..Len(pre.scratch["txt"].text) :
            \E k \in 1..Len(pre.scratch["txt"].text[n]) :
                pre.scratch["txt"].text[n][k].t = "marker"

\* C6: collect_outputs called without the output file or without the result
\* file raises the FileNotFoundError of line 166 and leaves the CSV as it was.
C6_MissingArtifactFails ==
    (CollectCalled /\ ~({"out", "res"} \subseteq DOMAIN pre.scratch)) =>
        /\ pc = "aborted"
        /\ exc = Exc("FileNotFoundError", 166)
        /\ csv = pre.csv

\* the solver exited 0 and left the output file without the result file
C6_Witness ==
    /\ pc = "aborted"
    /\ exc = Exc("FileNotFoundError", 166)
    /\ batch_run = 0
    /\ "out" \in DOMAIN pre.scratch
    /\ "res" \notin DOMAIN pre.scratch

Distinct(seq) == \A a, b \in 1..Len(seq) : a # b => seq[a] # seq[b]

RunIds == [n \in 1..Len(cfgs) |-> cfgs[n].run_id]

\* the pitch values as "%g" writes them, the (speed, mass_flow) pairs with the
\* mass flow as "%.4f" writes it
PitchKeys == [n \in 1..Len(pitch_array) |-> FmtG(pitch_array[n])]
PairKeys == [n \in 1..Len(RPM_array) |->
                <<RPM_array[n], Fmt4f(mass_flow_array[n])>>]

Built == pc = "setup" /\ Len(RPM_array) = Len(mass_flow_array)

\* C7, as amended: for equal-length speed and mass_flow lists and any pitch
\* list build_run_configs returns len(pitch) * len(speed) configurations, and
\* their run_ids are pairwise distinct provided that no two pitch values are
\* written alike with six significant digits and no two (speed, mass_flow)
\* pairs have the same speed and the same mass flow to four decimals.
C7_CountAndDistinctIds ==
    Built =>
        /\ Len(cfgs) = Len(pitch_array) * Len(RPM_array)
        /\ (Distinct(PitchKeys) /\ Distinct(PairKeys)) => Distinct(RunIds)

\* two pitch values and two pairs, all written differently
C7_Witness ==
    /\ Built
    /\ Len(cfgs) = 4
    /\ Distinct(PitchKeys)
    /\ Distinct(PairKeys)
    /\ Distinct(RunIds)

\* C7 as stated: the run_ids are pairwise distinct for any lists
C7_AsStated ==
    Built =>
        /\ Len(cfgs) = Len(pitch_array) * Len(RPM_array)
        /\ Distinct(RunIds)

\* C8: with speed and mass_flow lists of different lengths the program ends
\* in the ValueError of line 240 with no configuration built, no step of any
\* run performed and no file touched.
C8_MismatchAbortsFirst ==
    (Len(RPM_array) # Len(mass_flow_array) /\ pc # "build") =>
        /\ pc = "aborted"
        /\ exc = Exc("ValueError", 240)
        /\ cfgs = <<>>
        /\ hist = <<>>
        /\ csv = csv0
        /\ ~matlab_log.written
        /\ OutputPath \notin DOMAIN pre_files

\* one speed and two mass flows, with a pitch to run
C8_Witness ==
    /\ pc = "aborted"
    /\ exc = Exc("ValueError", 240)
    /\ Len(RPM_array) = 1
    /\ Len(mass_flow_array) = 2
    /\ pitch_array # <<>>

\* C9: a solver run that returned has its log <run_id>_solve.log in the
\* results root and a geometry run that returned has matlab.log, whatever the
\* exit code; the log reporting the exit code is there when run_monte tests
\* the exit code, and so when the sweep ends in the RuntimeError of line 284.
C9_LogsWritten ==
    /\ \A n \in 1..Len(hist) :
          /\ (hist[n].step = "solver" /\ hist[n].err = "") =>
                (cfgs[hist[n].cfg].run_id
                    \o <<"_", "s", "o", "l", "v", "e", ".", "l", "o", "g">>)
                        \in DOMAIN results_root
          /\ (hist[n].step = "matlab" /\ hist[n].err = "") => matlab_log.written
    /\ (pc = "solver_check" \/ exc = Exc("RuntimeError", 284)) =>
          results_root[cfgs[i].run_id
                       \o <<"_", "s", "o", "l", "v", "e", ".", "l", "o", "g">>]
              = [by |-> i, rc |-> batch_run, text |-> <<>>]
    /\ (pc = "matlab_check" \/ exc = Exc("RuntimeError", 273)) =>
          matlab_log = [written |-> TRUE, rc |-> m_run, by |-> i]

\* the sweep ended because the solver of the second configuration exited 1
C9_Witness ==
    /\ pc = "aborted"
    /\ exc = Exc("RuntimeError", 284)
    /\ i = 2
    /\ batch_run = 1
    /\ (cfgs[2].run_id \o <<"_", "s", "o", "l", "v", "e", ".", "l", "o", "g">>)
           \in DOMAIN results_root

\* C10: a call edit_pre(template_path, output_pre_path, cfg) whose
\* template_path names a file returns with output_pre_path holding the text
\* of that file with the three tokens replaced, and no token left in it.
C10_RendersItsTemplate ==
    (call # NoCall /\ call.template_path \in DOMAIN call.before) =>
        /\ call.err = ""
        /\ pre_files[call.output_pre_path]
              = Replace(Replace(Replace(call.before[call.template_path],
                                        TokPitch, PyStr(call.cfg.pitch_deg)),
                                TokRpm, IntStr(call.cfg.rpm)),
                        TokMassFlow, PyStr(call.cfg.mass_flow))
        /\ ~HasToken(pre_files[call.output_pre_path])

\* the state is one of the sweep, not of a caller of edit_pre alone, whose
\* steps are recorded with configuration 0
InSweep == pc # "render" /\ \A n \in 1..Len(hist) : hist[n].cfg # 0

\* C11, as amended: a call edit_pre(template_path, output_pre_path, cfg)
\* changes no file but output_pre_path, so it leaves the template as it was
\* whenever output_pre_path is not the template's path; the sweep writes
\* base_pre.pre only, and at every step of it TEMPLATE_base_pre.pre holds the
\* text it held when the sweep started.
C11_TemplateUnchanged ==
    /\ call # NoCall =>
          \A p \in DOMAIN call.before \ {call.output_pre_path} :
              p \in DOMAIN pre_files /\ pre_files[p] = call.before[p]
    /\ InSweep =>
          /\ TemplatePath \in DOMAIN pre_files
          /\ pre_files[TemplatePath] = SweepTemplate

\* the sweep ended after edit_pre wrote base_pre.pre from the template
C11_Witness ==
    /\ pc = "done"
    /\ call # NoCall
    /\ call.err = ""
    /\ OutputPath \in DOMAIN pre_files
    /\ pre_files[OutputPath] # SweepTemplate
    /\ pre_files[TemplatePath] = call.before[TemplatePath]

\* C11 as stated: after any call edit_pre(template_path, output_pre_path, cfg)
\* the file template_path names holds the text it held before the call
C11_AsStated ==
    (call # NoCall /\ call.template_path \in DOMAIN call.before) =>
        /\ call.template_path \in DOMAIN pre_files
        /\ pre_files[call.template_path] = call.before[call.template_path]

\* the steps of configuration c, oldest first
StepsOf(c) == SelectSeq(hist, LAMBDA ev : ev.cfg = c)

\* C12: the steps of hist are steps of configurations 1..Len(cfgs), taken in
\* this order; for each configuration the geometry run, the call of edit_pre,
\* the solver run and the call of collect_outputs each appear at most once;
\* edit_pre comes after a geometry run that exited 0, the solver after an
\* edit_pre that returned, collect_outputs after a solver run that exited 0,
\* its return after its call; and a step that failed the configuration, or
\* the return of collect_outputs, is the last step of the configuration.
C12_StepsInOrder ==
    /\ \A n \in 1..Len(hist) : hist[n].cfg \in 1..Len(cfgs)
    /\ \A a, b \in 1..Len(hist) : a < b => hist[a].cfg <= hist[b].cfg
    /\ \A c \in 1..Len(cfgs) :
          LET s == StepsOf(c)
              At(step) == {n \in 1..Len(s) : s[n].step = step}
          IN  /\ \A step \in {"matlab", "edit_pre", "solver", "collect",
                              "harvested"} : Cardinality(At(step)) <= 1
              /\ \A n \in At("edit_pre") :
                    \E k \in At("matlab") :
                        k < n /\ s[k].rc = 0 /\ s[k].err = ""
              /\ \A n \in At("solver") :
                    \E k \in At("edit_pre") : k < n /\ s[k].err = ""
              /\ \A n \in At("collect") :
                    \E k \in At("solver") :
                        k < n /\ s[k].rc = 0 /\ s[k].err = ""
              /\ \A n \in At("harvested") : \E k \in At("collect") : k < n
              /\ \A n \in 1..Len(s) :
                    (Failure(s[n]) \/ s[n].step = "harvested") => n = Len(s)

\* the sweep ended after two configurations went through all their steps
C12_Witness ==
    /\ pc = "done"
    /\ Len(cfgs) = 2
    /\ \A c \in {1, 2} :
          [n \in 1..Len(StepsOf(c)) |-> StepsOf(c)[n].step]
              = <<"matlab", "edit_pre", "solver", "collect", "harvested">>

\* C13: a step that deletes an artifact of the scratch workspace is taken
\* when nothing has been deleted since collect_outputs was called, the
\* archive holds <run_id>.out, .res and .txt with the content of the scratch
\* artifacts, pressure_ratio is what read_pr returns for the scratch report,
\* and the CSV is the CSV of the call with the row of this configuration
\* appended.
C13_CleanupLast ==
    [][(\E a \in DOMAIN scratch : a \notin DOMAIN scratch') =>
          /\ CollectCalled
          /\ scratch = pre.scratch
          /\ ArchiveNames(cfgs[i]) \subseteq DOMAIN results_root
          /\ results_root[cfgs[i].run_id \o <<".", "o", "u", "t">>] = scratch["out"]
          /\ results_root[cfgs[i].run_id \o <<".", "r", "e", "s">>] = scratch["res"]
          /\ results_root[cfgs[i].run_id \o <<".", "t", "x", "t">>] = scratch["txt"]
          /\ read_pr(scratch["txt"].text).err = ""
          /\ pressure_ratio = read_pr(scratch["txt"].text).value
          /\ csv.rows = Append(pre.csv.rows,
                               <<cfgs[i].run_id, CsvField(pressure_ratio)>>)]_vars

\* the four artifacts of a harvest have been deleted, after the copies and
\* the row were written
C13_Witness ==
    /\ pc = "assert_gone"
    /\ DOMAIN pre.scratch = {"out", "res", "txt", "dir"}
    /\ scratch = EmptyDir
    /\ ArchiveNames(cfgs[i]) \subseteq DOMAIN results_root
    /\ Len(csv.rows) = Len(pre.csv.rows) + 1

\* C14: when the solver of a configuration after the first is about to run,
\* the scratch workspace holds none of the four artifacts; and the artifacts
\* collect_outputs finds and archives were written by no earlier
\* configuration of the sweep: by the run of this configuration, or, for the
\* first configuration, before the sweep.
C14_ScratchClearBeforeSolver ==
    /\ (pc = "solver" /\ i >= 2) =>
          DOMAIN scratch \cap {"out", "res", "txt", "dir"} = {}
    /\ CollectCalled =>
          \A a \in DOMAIN pre.scratch :
              pre.scratch[a].by = i \/ (i = 1 /\ pre.scratch[a].by = 0)
    /\ pc = "saved" =>
          \A f \in ArchiveNames(cfgs[i]) :
              results_root[f].by = i \/ (i = 1 /\ results_root[f].by = 0)

\* the second configuration was harvested, with the artifacts of its own run
C14_Witness ==
    /\ pc = "saved"
    /\ i = 2
    /\ DOMAIN pre.scratch = {"out", "res", "txt", "dir"}
    /\ \A a \in DOMAIN pre.scratch : pre.scratch[a].by = 2
    /\ \A f \in ArchiveNames(cfgs[2]) : results_root[f].by = 2

\* C15: when the program has ended in the ValueError of line 140 (the marker
\* line of the report holds no number), the archive holds <run_id>.out, .res
\* and .txt with the content of the scratch artifacts of this configuration,
\* and the CSV is as it was when collect_outputs was called.
C15_ParseErrorKeepsCopies ==
    exc = Exc("ValueError", 140) =>
        /\ CollectCalled
        /\ ArchiveNames(cfgs[i]) \subseteq DOMAIN results_root
        /\ results_root[cfgs[i].run_id \o <<".", "o", "u", "t">>]
              = pre.scratch["out"]
        /\ results_root[cfgs[i].run_id \o <<".", "r", "e", "s">>]
              = pre.scratch["res"]
        /\ results_root[cfgs[i].run_id \o <<".", "t", "x", "t">>]
              = pre.scratch["txt"]
        /\ csv = pre.csv

\* the report of the second configuration had the marker line without a number
C15_Witness ==
    /\ exc = Exc("ValueError", 140)
    /\ i = 2
    /\ pre.scratch["txt"].text = ReportNoNumber
    /\ results_root[cfgs[i].run_id \o <<".", "t", "x", "t">>].text = ReportNoNumber
    /\ Len(csv.rows) = Len(csv0.rows) + 1

\* the archive files configuration c has written so far
Archived(c) ==
    {f \in ArchiveNames(cfgs[c]) \cap DOMAIN results_root : results_root[f].by = c}

\* C16, as amended: no step deletes an archive file a configuration of the
\* sweep has written, and the only step that overwrites one is a copy of the
\* harvest of a later configuration with the same run_id; so the archive
\* files of a configuration are never modified when no later configuration
\* of the sweep has its run_id.
C16_ArchiveWrittenOnce ==
    [][\A c \in 1..i :
          \A f \in Archived(c) :
              /\ f \in DOMAIN results_root'
              /\ results_root'[f] # results_root[f] =>
                    /\ c < i
                    /\ cfgs[i].run_id = cfgs[c].run_id
                    /\ pc \in {"copy_out", "copy_res", "copy_txt"}]_vars

\* two configurations with different run_ids were harvested, and the archive
\* holds the files of the first as the first wrote them
C16_Witness ==
    /\ pc = "done"
    /\ Len(cfgs) = 2
    /\ cfgs[1].run_id # cfgs[2].run_id
    /\ Len(Harvested) = 2
    /\ Archived(1) = ArchiveNames(cfgs[1])
    /\ Archived(2) = ArchiveNames(cfgs[2])

\* C16 as stated: no step overwrites or deletes an archive file a
\* configuration of the sweep has written
C16_AsStated ==
    [][\A c \in 1..i :
          \A f \in Archived(c) :
              /\ f \in DOMAIN results_root'
              /\ results_root'[f] = results_root[f]]_vars

\* the program has ended normally with every configuration harvested, or it
\* has ended in the exception of configuration i, the only one that failed,
\* with the configurations before it harvested and no step of a later one;
\* the ValueError of build_run_configs leaves no configuration at all
FinalShape ==
    /\ \A n \in 1..Len(Harvested) : Harvested[n].cfg = n
    /\ \/ /\ pc = "done"
          /\ Len(Harvested) = Len(cfgs)
          /\ \A n \in 1..Len(hist) : ~Failure(hist[n])
       \/ /\ pc = "aborted"
          /\ exc = Exc("ValueError", 240)
          /\ cfgs = <<>>
          /\ hist = <<>>
       \/ /\ pc = "aborted"
          /\ i \in 1..Len(cfgs)
          /\ Len(Harvested) = i - 1
          /\ \E n \in 1..Len(hist) : Failure(hist[n])
          /\ \A n \in 1..Len(hist) :
                /\ Failure(hist[n]) => hist[n].cfg = i
                /\ hist[n].cfg <= i

\* C17: the program ends, or from some step on it waits for ever for one run
\* of the geometry tool or of the solver: so it ends when every run of a tool
\* returns, and nothing else stalls it.  When it has ended, every
\* configuration is harvested, or one configuration has failed, the ones
\* before it are harvested and the ones after it have not started.
C17_Terminates ==
    /\ <>Stopped \/ <>[](pc = "matlab") \/ <>[](pc = "solver")
    /\ [](Stopped => FinalShape)

\* the sweep ended in the failure of its second configuration
C17_Witness ==
    /\ pc = "aborted"
    /\ i = 2
    /\ Len(cfgs) = 2
    /\ Len(Harvested) = 1
    /\ FinalShape

\* C18: for equal-length speed and mass_flow lists, the configuration
\* build_run_configs returns at the 0-based position a * len(speed) + j has
\* the pitch of position a and the speed and the mass flow of position j, for
\* every a < len(pitch) and j < len(speed).
C18_PitchOuterPairsByIndex ==
    Built =>
        \A a \in 0..(Len(pitch_array) - 1), j \in 0..(Len(RPM_array) - 1) :
            LET pos == a * Len(RPM_array) + j
            IN  /\ pos + 1 \in DOMAIN cfgs
                /\ cfgs[pos + 1].pitch_deg = pitch_array[a + 1]
                /\ cfgs[pos + 1].rpm = RPM_array[j + 1]
                /\ cfgs[pos + 1].mass_flow = mass_flow_array[j + 1]

\* two different pitch values and two different pairs: the second
\* configuration has the first pitch and the second pair, the third has the
\* second pitch and the first pair
C18_Witness ==
    /\ Built
    /\ Len(pitch_array) = 2
    /\ Len(RPM_array) = 2
    /\ pitch_array[1] # pitch_array[2]
    /\ RPM_array[1] # RPM_array[2]
    /\ mass_flow_array[1] # mass_flow_array[2]
    /\ cfgs[2].pitch_deg = pitch_array[1]
    /\ cfgs[2].rpm = RPM_array[2]
    /\ cfgs[3].pitch_deg = pitch_array[2]
    /\ cfgs[3].mass_flow = mass_flow_array[1]

\* C19: when collect_outputs has raised before line 181 (the
\* FileNotFoundError of line 166, of a copy or of read_pr, the AssertionError
\* of line 176, the ValueError of line 140), the scratch workspace and the
\* CSV are as they were when it was called.
C19_FailedHarvestKeepsScratch ==
    (CollectCalled /\ pc = "aborted"
        /\ exc.line \in {166, 173, 174, 175, 176, 133, 140}) =>
        /\ hist[Len(hist)].step = "raise"
        /\ scratch = pre.scratch
        /\ \A a \in DOMAIN pre.scratch : a \in DOMAIN scratch
        /\ csv = pre.csv

\* the solver left the output and result files without the report, and the
\* copy of the report failed
C19_Witness ==
    /\ pc = "aborted"
    /\ exc = Exc("FileNotFoundError", 175)
    /\ DOMAIN scratch = {"out", "res"}
    /\ csv = pre.csv

====
